---- MODULE Spec2Model ----
(***************************************************************************)
(* A model of pytext/data/tensorizers.py: the corpus-streaming initializer *)
(* initialize_tensorizers, which drives every tensorizer's initialize      *)
(* generator, and the numberize functions of the tensorizer variants.      *)
(***************************************************************************)
EXTENDS Integers, Sequences, FiniteSets, TLC

\* ------------------------------------------------------------------ bounds
\* Number of tensorizers in the dict handed to initialize_tensorizers.
NumTensorizers == 2
\* Largest number of rows the data source produces.
MaxRows == 2
\* Largest number of tokens the tokenizer returns for a text (token encoders).
MaxTokens == 2
\* Largest max_seq_len configured (token encoders).
MaxSeqLenCfg == 2
\* Largest number of words in the corpus a token vocabulary is built from.
MaxCorpus == 1

\* Largest character offset of a token or span label (label alignment).
MaxPos == 4
\* Largest number of tokens, and of span labels, of a row (label alignment).
MaxSpans == 2
\* Largest number of slot labels in the corpus a slot vocabulary is built from.
MaxSlotCorpus == 2

\* Largest number of characters of a label column value (categorical labels).
MaxLabelLen == 3
\* Largest number of rows of the corpus a label vocabulary is built from.
MaxLabelRows == 2
\* Largest magnitude of the bounds of a rescale_range; raw labels go one beyond.
MaxAbs == 3

\* Largest number of items of a float list text.
MaxItems == 3
\* Largest run of spaces before a comma in a float list text.
MaxSpaces == 2

\* --------------------------------------------------------------- variables
VARIABLES
    kind,          \* tensorizer -> what its initialize does when primed
    data_source,   \* the rows; a row is the set of tensorizers whose column it lacks
    pc,            \* position of initialize_tensorizers
    i,             \* index of the generator the priming loop is at
    initializers,  \* the list of primed, suspended generators (line 548)
    r,             \* index of the row the outer loop holds (0: none fetched yet)
    j,             \* index into initializers the inner loop is at
    iterated,      \* whether iteration over data_source was started
    gen,           \* tensorizer -> state of its generator object
    sent,          \* tensorizer -> indices of the rows sent to its generator
    finalized,     \* tensorizer -> times its GeneratorExit branch has run
    op,            \* the numberize call last made (pure-function specifications)
    args,          \* its inputs
    res            \* its outcome

initVars == <<kind, data_source, pc, i, initializers, r, j, iterated, gen, sent, finalized>>
callVars == <<op, args, res>>
vars == <<kind, data_source, pc, i, initializers, r, j, iterated, gen, sent, finalized,
          op, args, res>>

None == "None"

\* ===================================================== initialize_tensorizers

Tensorizers == 1..NumTensorizers

\* What a tensorizer's initialize() generator does on the priming send(None):
\*   "yield"  it suspends at `row = yield` (TokenTensorizer without a vocab,
\*            LabelTensorizer, WordLabelTensorizer);
\*   "return" it returns before any yield, so send raises StopIteration
\*            (Tensorizer.initialize, CharacterTokenTensorizer, TokenTensorizer
\*            constructed with a vocab);
\*   "raise"  its body raises another exception before the first yield.
PrimeOutcomes == {"yield", "return", "raise"}

\* A row is modelled by the set of tensorizers whose column is absent from it:
\* row[self.text_column] (line 147), row[self.label_column] (line 281) and
\* row[self.slot_column] (line 430) raise KeyError inside the generator then.
Rows == SUBSET Tensorizers

RECURSIVE SeqsUpTo(_, _)
SeqsUpTo(S, n) ==
    IF n = 0 THEN {<<>>}
    ELSE LET shorter == SeqsUpTo(S, n - 1)
         IN  shorter \cup {Append(s, x) : s \in {t \in shorter : Len(t) = n - 1}, x \in S}

\* 1, 2, ..., n as a sequence.
UpTo(n) == [k \in 1..n |-> k]

\* No numberize call has been made.
InitIdleCall ==
    /\ op = "none"
    /\ args = <<>>
    /\ res = <<>>

\* Lines 548-549: initializers = [], and the list comprehension has called
\* initialize() on every tensorizer: every generator object exists, none has run.
Init ==
    /\ kind \in [Tensorizers -> PrimeOutcomes]
    /\ data_source \in SeqsUpTo(Rows, MaxRows)
    /\ pc = "prime"
    /\ i = 1
    /\ initializers = <<>>
    /\ r = 0
    /\ j = 0
    /\ iterated = FALSE
    /\ gen = [c \in Tensorizers |-> "created"]
    /\ sent = [c \in Tensorizers |-> <<>>]
    /\ finalized = [c \in Tensorizers |-> 0]
    /\ InitIdleCall

\* Prime with the append outside the try: a generator that returned at
\* priming is kept in the list as well.
PrimeKeepsReturned ==
    /\ pc = "prime"
    /\ i <= NumTensorizers
    /\ CASE kind[i] = "yield" ->
              /\ gen' = [gen EXCEPT ![i] = "suspended"]
              /\ initializers' = Append(initializers, i)
              /\ i' = i + 1
              /\ pc' = pc
         [] kind[i] = "return" ->
              /\ gen' = [gen EXCEPT ![i] = "returned"]
              /\ initializers' = Append(initializers, i)
              /\ i' = i + 1
              /\ pc' = pc
         [] kind[i] = "raise" ->
              /\ gen' = [gen EXCEPT ![i] = "failed"]
              /\ initializers' = initializers
              /\ i' = i
              /\ pc' = "raised"
    /\ UNCHANGED <<kind, data_source, r, j, iterated, sent, finalized>>
    /\ UNCHANGED callVars

\* Lines 549-554: one pass of the priming loop: init.send(None).
Prime ==
    /\ pc = "prime"
    /\ i <= NumTensorizers
    /\ CASE kind[i] = "yield" ->
              /\ gen' = [gen EXCEPT ![i] = "suspended"]
              /\ initializers' = Append(initializers, i)
              /\ i' = i + 1
              /\ pc' = pc
         [] kind[i] = "return" ->
              \* StopIteration is caught (line 553): the generator is not kept
              /\ gen' = [gen EXCEPT ![i] = "returned"]
              /\ initializers' = initializers
              /\ i' = i + 1
              /\ pc' = pc
         [] kind[i] = "raise" ->
              \* any other exception leaves initialize_tensorizers
              /\ gen' = [gen EXCEPT ![i] = "failed"]
              /\ initializers' = initializers
              /\ i' = i
              /\ pc' = "raised"
    /\ UNCHANGED <<kind, data_source, r, j, iterated, sent, finalized>>
    /\ UNCHANGED callVars

\* Lines 556-557: the priming loop is over and some generator is suspended:
\* iteration over data_source starts.
StartLoop ==
    /\ pc = "prime"
    /\ i > NumTensorizers
    /\ initializers # <<>>
    /\ pc' = "loop"
    /\ iterated' = TRUE
    /\ r' = 0
    /\ j' = Len(initializers) + 1
    /\ UNCHANGED <<kind, data_source, i, initializers, gen, sent, finalized>>
    /\ UNCHANGED callVars

\* Line 556: `if initializers:` is false: the function returns, data_source untouched.
SkipLoop ==
    /\ pc = "prime"
    /\ i > NumTensorizers
    /\ initializers = <<>>
    /\ pc' = "done"
    /\ UNCHANGED <<kind, data_source, i, initializers, r, j, iterated, gen, sent, finalized>>
    /\ UNCHANGED callVars

\* NextRow with the inner loop starting one generator too late.
NextRowFromSecond ==
    /\ pc = "loop"
    /\ j > Len(initializers)
    /\ r < Len(data_source)
    /\ r' = r + 1
    /\ j' = 2
    /\ UNCHANGED <<kind, data_source, pc, i, initializers, iterated, gen, sent, finalized>>
    /\ UNCHANGED callVars

\* Line 557: the outer loop takes the next row of data_source.
NextRow ==
    /\ pc = "loop"
    /\ j > Len(initializers)
    /\ r < Len(data_source)
    /\ r' = r + 1
    /\ j' = 1
    /\ UNCHANGED <<kind, data_source, pc, i, initializers, iterated, gen, sent, finalized>>
    /\ UNCHANGED callVars

\* Send with the generator's exception caught and the loops carrying on.
SendSwallowsError ==
    /\ pc = "loop"
    /\ j <= Len(initializers)
    /\ LET c == initializers[j]
       IN  /\ sent' = [sent EXCEPT ![c] = Append(@, r)]
           /\ gen' = IF c \in data_source[r] THEN [gen EXCEPT ![c] = "failed"] ELSE gen
           /\ pc' = pc
           /\ j' = j + 1
    /\ UNCHANGED <<kind, data_source, i, initializers, r, iterated, finalized>>
    /\ UNCHANGED callVars

\* Lines 558-559: init.send(row) for the generator the inner loop is at. The
\* generator resumes at `row = yield`, reads its column, and either loops back
\* to the yield or raises KeyError, which leaves initialize_tensorizers.
Send ==
    /\ pc = "loop"
    /\ j <= Len(initializers)
    /\ LET c == initializers[j]
       IN  /\ sent' = [sent EXCEPT ![c] = Append(@, r)]
           /\ IF c \in data_source[r]
                 THEN /\ gen' = [gen EXCEPT ![c] = "failed"]
                      /\ pc' = "raised"
                      /\ j' = j
                 ELSE /\ gen' = gen
                      /\ pc' = pc
                      /\ j' = j + 1
    /\ UNCHANGED <<kind, data_source, i, initializers, r, iterated, finalized>>
    /\ UNCHANGED callVars

\* Line 557 onwards: data_source is exhausted; the function body ends here
\* (line 559 is its last statement), so the function returns. No close() is
\* called on any generator.
Return ==
    /\ pc = "loop"
    /\ j > Len(initializers)
    /\ r = Len(data_source)
    /\ pc' = "done"
    /\ UNCHANGED <<kind, data_source, i, initializers, r, j, iterated, gen, sent, finalized>>
    /\ UNCHANGED callVars

\* The interpreter's garbage collector finalizes a suspended generator that is
\* no longer referenced: it throws GeneratorExit into it, which runs the
\* `except GeneratorExit` branch (lines 150-151, 283-284, 432-433). This is
\* not a step of initialize_tensorizers: it can happen only once the function
\* has left (its frame held the references), and the language fixes no moment
\* for it.
Collect(c) ==
    /\ pc \in {"done", "raised"}
    /\ gen[c] = "suspended"
    /\ gen' = [gen EXCEPT ![c] = "closed"]
    /\ finalized' = [finalized EXCEPT ![c] = @ + 1]
    /\ UNCHANGED <<kind, data_source, pc, i, initializers, r, j, iterated, sent>>
    /\ UNCHANGED callVars

Next ==
    \/ Prime
    \/ StartLoop
    \/ SkipLoop
    \/ NextRow
    \/ Send
    \/ Return
    \/ \E c \in Tensorizers : Collect(c)

Spec == Init /\ [][Next]_vars

\* ------------------------------------------------ claims: the initializer

\* The generators that are in the active list.
Active == {initializers[k] : k \in 1..Len(initializers)}

\* C1: every tensorizer whose initialize suspends at priming is sent each of the
\* N rows exactly once and in source order (on return its rows sent are 1..N),
\* what it has been sent so far is always a prefix 1..m of the source, and row
\* n is sent to every active generator before row n+1 is sent to any.
C1_EachRowOnceInOrder ==
    /\ \A c \in Tensorizers : sent[c] = UpTo(Len(sent[c]))
    /\ \A c \in Active, d \in Active :
          \A n \in 1..Len(data_source) : Len(sent[c]) >= n + 1 => Len(sent[d]) >= n
    /\ pc = "done" =>
          \A c \in Tensorizers : kind[c] = "yield" => sent[c] = UpTo(Len(data_source))

\* C1 witness: the function has returned after streaming at least two rows to
\* at least two suspended generators.
C1_Witness ==
    /\ pc = "done"
    /\ Len(data_source) >= 2
    /\ Cardinality(Active) >= 2
    /\ \A c \in Active : sent[c] = UpTo(Len(data_source))

C10_RaiseAborts ==
    (\E c \in Tensorizers : gen[c] = "failed") =>
        /\ pc = "raised"
        /\ Cardinality({c \in Tensorizers : gen[c] = "failed"}) = 1
        /\ IF ~iterated
              THEN /\ gen[i] = "failed"
                   /\ \A c \in Tensorizers : c > i => gen[c] = "created"
                   /\ \A c \in Tensorizers : sent[c] = <<>>
              ELSE /\ j \in 1..Len(initializers)
                   /\ gen[initializers[j]] = "failed"
                   /\ \A k \in 1..Len(initializers) :
                         sent[initializers[k]] = IF k <= j THEN UpTo(r) ELSE UpTo(r - 1)

\* C10 witness: a generator raised on a row while a later generator and a later
\* row were still to come.
C10_Witness ==
    /\ pc = "raised"
    /\ iterated
    /\ j < Len(initializers)
    /\ r < Len(data_source)
    /\ gen[initializers[j]] = "failed"


\* C11: a tensorizer whose initialize returns at priming is not in the active
\* list and is never sent a row, and its GeneratorExit branch, the only place
\* that assigns its vocabulary, never runs; the generators that suspended are
\* still sent every row by the time the function returns; and when no
\* generator is active the data source is not iterated.
C11_ReturnedIsDropped ==
    /\ \A c \in Tensorizers :
          (kind[c] = "return" /\ (c < i \/ pc = "done")) =>
              /\ gen[c] = "returned"
              /\ c \notin Active
              /\ sent[c] = <<>>
              /\ finalized[c] = 0
    /\ \A c \in Tensorizers : kind[c] = "return" => sent[c] = <<>> /\ finalized[c] = 0
    /\ (pc = "done" /\ \E c \in Tensorizers : kind[c] = "return") =>
          \A d \in Tensorizers : kind[d] = "yield" => sent[d] = UpTo(Len(data_source))
    /\ iterated => initializers # <<>>
    /\ (pc = "done" /\ initializers = <<>>) => (~iterated /\ r = 0)

\* C11 witness: the function has returned after one generator returned at
\* priming and another was streamed at least two rows.
C11_Witness ==
    /\ pc = "done"
    /\ Len(data_source) >= 2
    /\ \E c \in Tensorizers : gen[c] = "returned" /\ sent[c] = <<>>
    /\ \E d \in Active : sent[d] = UpTo(Len(data_source))

\* ============================================ vocabulary and tokenizer (utils)

PAD == "__PAD__"
UNK == "__UNKNOWN__"
BOS == "__BEGIN_OF_SENTENCE__"
EOS == "__END_OF_SENTENCE__"

\* The initializer's variables in a specification that only calls numberize.
InitIdleInitializer ==
    /\ kind = [c \in Tensorizers |-> "return"]
    /\ data_source = <<>>
    /\ pc = "idle"
    /\ i = 1
    /\ initializers = <<>>
    /\ r = 0
    /\ j = 0
    /\ iterated = FALSE
    /\ gen = [c \in Tensorizers |-> "created"]
    /\ sent = [c \in Tensorizers |-> <<>>]
    /\ finalized = [c \in Tensorizers |-> 0]

Range(seq) == {seq[k] : k \in 1..Len(seq)}

Min(a, b) == IF a <= b THEN a ELSE b

\* seq[:n]
Take(seq, n) == SubSeq(seq, 1, Min(Len(seq), n))

\* VocabBuilder(): an empty accumulator with its reservation switches.
VocabBuilder(use_pad, use_unk) == [use_pad |-> use_pad, use_unk |-> use_unk, symbols |-> <<>>]

\* VocabBuilder.add: a symbol not seen before is appended, in encounter order.
BuilderAdd(builder, symbol) ==
    IF symbol \in Range(builder.symbols) THEN builder
    ELSE [builder EXCEPT !.symbols = Append(@, symbol)]

\* VocabBuilder.add_all: add, for each symbol in turn.
RECURSIVE BuilderAddAll(_, _)
BuilderAddAll(builder, symbols) ==
    IF symbols = <<>> THEN builder
    ELSE BuilderAddAll(BuilderAdd(builder, Head(symbols)), Tail(symbols))

\* VocabBuilder.make_vocab: the frozen list of symbols, reserved ones first; a
\* symbol's index is its position in the list, counted from 0.
MakeVocabOf(builder, unk, pad) ==
    (IF builder.use_unk THEN <<unk>> ELSE <<>>)
        \o (IF builder.use_pad THEN <<pad>> ELSE <<>>)
        \o SelectSeq(builder.symbols, LAMBDA x : x \notin {unk, pad})

\* make_vocab where symbols are whole strings.
MakeVocab(builder) == MakeVocabOf(builder, UNK, PAD)

\* The index of a symbol that is in the vocabulary.
IndexOf(vocab, symbol) == (CHOOSE k \in 1..Len(vocab) : vocab[k] = symbol) - 1

\* Vocabulary.lookup_all on a sequence of symbols: the index of each; a symbol
\* that is not in the vocabulary gets the UNK index when UNK is reserved, and
\* makes the lookup fail otherwise.
LookupAllOf(vocab, symbols, unk) ==
    IF \A k \in 1..Len(symbols) : symbols[k] \in Range(vocab) \/ unk \in Range(vocab)
    THEN [ok |-> TRUE, error |-> None,
          ids |-> [k \in 1..Len(symbols) |->
                     IF symbols[k] \in Range(vocab) THEN IndexOf(vocab, symbols[k])
                     ELSE IndexOf(vocab, unk)]]
    ELSE [ok |-> FALSE, error |-> "UnknownSymbol", ids |-> <<>>]

\* lookup_all where symbols are whole strings.
LookupAll(vocab, symbols) == LookupAllOf(vocab, symbols, UNK)

\* ========================================================== TokenTensorizer

\* The words a text is made of, and the character codes (ord) of each.
TokenValues == {"a", "ab"}
Ord == [w \in TokenValues |-> IF w = "a" THEN <<97>> ELSE <<97, 98>>]

\* Token(value, start, end)
Token(value, start, end) == [value |-> value, start |-> start, end |-> end]

\* Tokenizer.tokenize on a text of words separated by single spaces: one token
\* per word, in order, with its half-open character span.
RECURSIVE Tokenize(_, _)
Tokenize(words, offset) ==
    IF words = <<>> THEN <<>>
    ELSE LET n == Len(Ord[Head(words)])
         IN  <<Token(Head(words), offset, offset + n)>> \o Tokenize(Tail(words), offset + n + 1)

\* 2 ** 30, the "large number" of line 120.
LargeNumber == 1073741824

\* An Optional[int] is a set: {} for None, {n} for n.
OptionalInts(n) == {{}} \cup {{k} : k \in 0..n}
TheInt(opt) == CHOOSE k \in opt : TRUE

\* TokenTensorizer.__init__, line 120: self.max_seq_len = max_seq_len or 2 ** 30.
\* `or` takes the right operand for None and for 0 alike.
InitMaxSeqLen(max_seq_len) ==
    IF max_seq_len = {} \/ max_seq_len = {0} THEN LargeNumber ELSE TheInt(max_seq_len)

\* The configurations of a TokenTensorizer (Config, lines 81-89).
TokenConfigs ==
    [add_bos_token : BOOLEAN, add_eos_token : BOOLEAN, use_eos_token_for_bos : BOOLEAN,
     max_seq_len : OptionalInts(MaxSeqLenCfg)]

\* TokenTensorizer.initialize run over a corpus and closed (lines 143-151):
\* the vocabulary of the corpus' token values.
TokenInitialize(corpus) ==
    MakeVocab(BuilderAddAll(VocabBuilder(TRUE, TRUE),
                            [k \in 1..Len(corpus) |-> Tokenize(corpus, 0)[k].value]))

\* TokenTensorizer._lookup_tokens, lines 123-134. Unpacking the zip of no
\* tokens into three names (line 130) raises ValueError.
LookupTokens(cfg, vocab, words) ==
    LET truncated == Take(Tokenize(words, 0), InitMaxSeqLen(cfg.max_seq_len))
        bos == IF cfg.use_eos_token_for_bos THEN EOS ELSE BOS
        withBos == IF cfg.add_bos_token THEN <<Token(bos, -1, -1)>> \o truncated
                   ELSE truncated
        tokenized == IF cfg.add_eos_token THEN Append(withBos, Token(EOS, -1, -1))
                     ELSE withBos
    IN  IF tokenized = <<>>
        THEN [ok |-> FALSE, error |-> "ValueError", tokens |-> <<>>,
              start_idx |-> <<>>, end_idx |-> <<>>]
        ELSE LET tokens == LookupAll(vocab, [k \in 1..Len(tokenized) |-> tokenized[k].value])
             IN  [ok |-> tokens.ok, error |-> tokens.error, tokens |-> tokens.ids,
                  start_idx |-> [k \in 1..Len(tokenized) |-> tokenized[k].start],
                  end_idx |-> [k \in 1..Len(tokenized) |-> tokenized[k].end]]

\* TokenTensorizer.numberize, lines 153-156: (tokens, len(tokens)).
TokenNumberize(cfg, vocab, words) ==
    LET looked == LookupTokens(cfg, vocab, words)
    IN  [ok |-> looked.ok, error |-> looked.error, tokens |-> looked.tokens,
         len |-> Len(looked.tokens)]

\* CharacterTokenTensorizer.numberize, lines 231-238: the tokenizer's tokens cut
\* to max_seq_len, each as its character codes cut to max_char_length.
CharacterNumberize(cfg, max_char_length, words) ==
    LET tokens == Take(Tokenize(words, 0), InitMaxSeqLen(cfg.max_seq_len))
        characters == [k \in 1..Len(tokens) |-> Take(Ord[tokens[k].value], max_char_length)]
    IN  [ok |-> TRUE, error |-> None, characters |-> characters,
         lengths |-> [k \in 1..Len(characters) |-> Len(characters[k])]]

\* A call of TokenTensorizer.numberize on a row, after initialization on a corpus.
CallTokenNumberize ==
    /\ op = "none"
    /\ \E cfg \in TokenConfigs, corpus \in SeqsUpTo(TokenValues, MaxCorpus),
       words \in SeqsUpTo(TokenValues, MaxTokens) :
        /\ op' = "TokenTensorizer.numberize"
        /\ args' = [cfg |-> cfg, corpus |-> corpus, words |-> words, max_char_length |-> 0]
        /\ res' = TokenNumberize(cfg, TokenInitialize(corpus), words)
        /\ UNCHANGED initVars

\* A call of CharacterTokenTensorizer.numberize on a row.
CallCharacterNumberize ==
    /\ op = "none"
    /\ \E cfg \in TokenConfigs, max_char_length \in 1..2,
       words \in SeqsUpTo(TokenValues, MaxTokens) :
        /\ op' = "CharacterTokenTensorizer.numberize"
        /\ args' = [cfg |-> cfg, corpus |-> <<>>, words |-> words,
                    max_char_length |-> max_char_length]
        /\ res' = CharacterNumberize(cfg, max_char_length, words)
        /\ UNCHANGED initVars

InitToken == InitIdleInitializer /\ InitIdleCall
NextToken == CallTokenNumberize \/ CallCharacterNumberize
SpecToken == InitToken /\ [][NextToken]_vars

\* ------------------------------------------------ claims: the token encoders

\* The length C5 states: min(n, max_seq_len) + bos + eos, max_seq_len unset
\* meaning unbounded.
C5_ExpectedLen(cfg, n) ==
    (IF cfg.max_seq_len = {} THEN n ELSE Min(n, TheInt(cfg.max_seq_len)))
        + (IF cfg.add_bos_token THEN 1 ELSE 0) + (IF cfg.add_eos_token THEN 1 ELSE 0)

\* C5: TokenTensorizer.numberize returns, for every tokenizer output of n >= 0
\* tokens, every max_seq_len (a non-negative integer or unset) and every
\* add_bos_token / add_eos_token, a token-id sequence of length
\* min(n, max_seq_len) + bos + eos, and a sequence_length equal to that length.
C5_LengthIsTruncatedPlusBoundaries ==
    op = "TokenTensorizer.numberize" =>
        /\ res.ok
        /\ Len(res.tokens) = C5_ExpectedLen(args.cfg, Len(args.words))
        /\ res.len = Len(res.tokens)

\* C6: for the same text and configuration, CharacterTokenTensorizer.numberize
\* returns as many character sequences, and as many lengths, as
\* TokenTensorizer.numberize returns token ids (where the latter returns).
C6_SameCountAsTokenTensorizer ==
    op = "CharacterTokenTensorizer.numberize" =>
        LET token == TokenNumberize(args.cfg, TokenInitialize(args.words), args.words)
        IN  token.ok =>
                /\ Len(res.characters) = Len(token.tokens)
                /\ Len(res.lengths) = Len(token.tokens)

\* ======================================================= WordLabelTensorizer

NO_LABEL == "__NO_LABEL__"
SlotLabels == {"L1", "L2"}

\* Slot(label, start, end)
Slot(label, start, end) == [label |-> label, start |-> start, end |-> end]

\* Half-open, non-empty character spans within 0..MaxPos.
Spans == {sp \in (0..MaxPos) \X (0..MaxPos) : sp[1] < sp[2]}

\* The sequences of at most n spans, ordered by position and not overlapping.
OrderedSpans(n) ==
    {sq \in SeqsUpTo(Spans, n) : \A k \in 1..(Len(sq) - 1) : sq[k][2] <= sq[k + 1][1]}

\* The tokenizer's outputs of at most n tokens: in text order, spans disjoint.
TokenSeqs(n) == {[k \in 1..Len(sq) |-> Token("w", sq[k][1], sq[k][2])] : sq \in OrderedSpans(n)}

\* The slot columns of at most n span labels: ordered by position, each labelled.
SlotSeqs(n) ==
    UNION {{[k \in 1..Len(sq) |-> Slot(ls[k], sq[k][1], sq[k][2])] :
              ls \in [1..Len(sq) -> SlotLabels]} : sq \in OrderedSpans(n)}

\* WordLabelTensorizer.initialize run over a corpus of slot labels and closed
\* (lines 424-433): NO_LABEL first, then every label seen.
WordLabelInitialize(allow_unknown, corpus) ==
    MakeVocab(BuilderAddAll(BuilderAdd(VocabBuilder(TRUE, allow_unknown), NO_LABEL), corpus))

\* The loop of WordLabelTensorizer.numberize, lines 447-454; current_token and
\* current_slot count from 0 as in the source.
RECURSIVE AlignLoop(_, _, _, _, _)
AlignLoop(tokens, slots, current_token, current_slot, labels) ==
    IF current_token < Len(tokens) /\ current_slot < Len(slots)
    THEN LET token == tokens[current_token + 1]
             slot == slots[current_slot + 1]
         IN  IF token.start > slot.end
             THEN AlignLoop(tokens, slots, current_token, current_slot + 1, labels)
             ELSE AlignLoop(tokens, slots, current_token + 1, current_slot,
                            Append(labels, IF token.end > slot.start THEN slot.label
                                           ELSE NO_LABEL))
    ELSE labels

\* WordLabelTensorizer.numberize, lines 435-455.
WordLabelNumberize(vocab, tokens, slots) ==
    LET labels == AlignLoop(tokens, slots, 0, 0, <<>>)
        looked == LookupAll(vocab, labels)
    IN  [ok |-> looked.ok, error |-> looked.error, ids |-> looked.ids, labels |-> labels]

\* A call of WordLabelTensorizer.numberize on a row, after initialization on a corpus.
CallWordLabelNumberize ==
    /\ op = "none"
    /\ \E allow_unknown \in BOOLEAN, corpus \in SeqsUpTo(SlotLabels, MaxSlotCorpus),
       tokens \in TokenSeqs(MaxSpans), slots \in SlotSeqs(MaxSpans) :
        /\ op' = "WordLabelTensorizer.numberize"
        /\ args' = [allow_unknown |-> allow_unknown, corpus |-> corpus,
                    tokens |-> tokens, slots |-> slots]
        /\ res' = WordLabelNumberize(WordLabelInitialize(allow_unknown, corpus), tokens, slots)
        /\ UNCHANGED initVars

InitWordLabel == InitIdleInitializer /\ InitIdleCall
NextWordLabel == CallWordLabelNumberize
SpecWordLabel == InitWordLabel /\ [][NextWordLabel]_vars

\* ---------------------------------------------- claims: the label alignment

\* C3: WordLabelTensorizer.numberize returns exactly one label per token: the
\* output is as long as the token sequence, whatever the span labels are
\* (none, or exhausted before the last token).
C3_OneLabelPerToken ==
    (op = "WordLabelTensorizer.numberize" /\ res.ok) =>
        /\ Len(res.ids) = Len(args.tokens)
        /\ Len(res.labels) = Len(args.tokens)

\* C4: a token is given a span label's text only if its half-open interval and
\* that of a span label with this text share a character (token.end >
\* label.start and token.start < label.end); a token touching a label's
\* boundary is given NO_LABEL.
C4_LabelOnlyOnOverlap ==
    (op = "WordLabelTensorizer.numberize" /\ res.ok) =>
        \A k \in 1..Len(res.labels) :
            res.labels[k] # NO_LABEL =>
                \E n \in 1..Len(args.slots) :
                    /\ args.slots[n].label = res.labels[k]
                    /\ args.tokens[k].end > args.slots[n].start
                    /\ args.tokens[k].start < args.slots[n].end

\* ========================================================== LabelTensorizer

\* A label column value is a string, modelled as the sequence of its
\* characters; a reserved symbol is a string of one character of its own.
LabelChars == {"a", "b", ","}
LabelStrings(n) == SeqsUpTo(LabelChars, n)

\* str.split(delimiter): the segments between the delimiters, empty ones kept.
RECURSIVE SplitFrom(_, _, _, _)
SplitFrom(str, delimiter, segment, done) ==
    IF str = <<>> THEN Append(done, segment)
    ELSE IF Head(str) = delimiter
         THEN SplitFrom(Tail(str), delimiter, <<>>, Append(done, segment))
         ELSE SplitFrom(Tail(str), delimiter, Append(segment, Head(str)), done)

Split(str, delimiter) == SplitFrom(str, delimiter, <<>>, <<>>)

\* The accumulation of LabelTensorizer.initialize, lines 279-282: each row's
\* label column is split on "," and every segment added.
RECURSIVE LabelAccumulate(_, _)
LabelAccumulate(builder, rows) ==
    IF rows = <<>> THEN builder
    ELSE LabelAccumulate(BuilderAddAll(builder, Split(Head(rows), ",")), Tail(rows))

\* LabelTensorizer.initialize run over the rows and closed (lines 275-284):
\* no PAD, UNK only with allow_unknown.
LabelInitialize(allow_unknown, rows) ==
    MakeVocabOf(LabelAccumulate(VocabBuilder(FALSE, allow_unknown), rows), <<UNK>>, <<PAD>>)

\* LabelTensorizer.numberize, line 288: the column value goes to lookup_all as
\* it is, not split. What lookup_all makes of a str argument is the
\* vocabulary's business: it is either looked up as one symbol ("whole") or
\* iterated character by character ("chars"); both outcomes are kept.
LabelNumberize(labels, value) ==
    [whole |-> LookupAllOf(labels, <<value>>, <<UNK>>),
     chars |-> LookupAllOf(labels, [k \in 1..Len(value) |-> <<value[k]>>], <<UNK>>)]

\* The label column values of a well-formed corpus: one or more non-empty
\* labels separated by commas.
LabelColumnValues(n) ==
    {str \in LabelStrings(n) : \A k \in 1..Len(Split(str, ",")) : Split(str, ",")[k] # <<>>}

\* A call of LabelTensorizer.numberize on a row of the corpus it was initialized on.
CallLabelNumberize ==
    /\ op = "none"
    /\ \E allow_unknown \in BOOLEAN, rows \in SeqsUpTo(LabelColumnValues(MaxLabelLen), MaxLabelRows) :
         \E k \in 1..Len(rows) :
            /\ op' = "LabelTensorizer.numberize"
            /\ args' = [allow_unknown |-> allow_unknown, rows |-> rows, value |-> rows[k]]
            /\ res' = LabelNumberize(LabelInitialize(allow_unknown, rows), rows[k])
            /\ UNCHANGED initVars

InitLabel == InitIdleInitializer /\ InitIdleCall
NextLabel == CallLabelNumberize
SpecLabel == InitLabel /\ [][NextLabel]_vars

\* -------------------------------------------- claims: the categorical labels

\* The indices C7 states: one per comma-delimited segment, each the index the
\* segment has in the vocabulary.
C7_Expected(labels, value) ==
    LET segments == Split(value, ",")
    IN  [k \in 1..Len(segments) |-> IndexOf(labels, segments[k])]

\* C7: for a row value seen during initialization, LabelTensorizer.numberize
\* succeeds and returns one index per comma-delimited segment, the index that
\* label has in the vocabulary (under one or the other treatment of a str by
\* lookup_all).
C7_SplitAndLookup ==
    op = "LabelTensorizer.numberize" =>
        LET expected == C7_Expected(LabelInitialize(args.allow_unknown, args.rows), args.value)
        IN  \/ res.whole.ok /\ res.whole.ids = expected
            \/ res.chars.ok /\ res.chars.ids = expected

\* =================================================== NumericLabelTensorizer

\* A float is modelled exactly, as a fraction with a positive denominator.
Frac(num, den) == [num |-> num, den |-> den]
FracLeq(a, b) == a.num * b.den <= b.num * a.den
FracEq(a, b) == a.num * b.den = b.num * a.den

\* The rescale_range values __init__ accepts (lines 315-318): None, written {},
\* or a list of two numbers, the first less than the second.
RescaleRanges ==
    {{}} \cup {{rg} : rg \in {p \in ((-MaxAbs)..MaxAbs) \X ((-MaxAbs)..MaxAbs) : p[1] < p[2]}}

\* NumericLabelTensorizer.numberize with a value out of range clamped into
\* [0, 1] in place of the assertion.
NumericNumberizeClamps(rescale_range, x) ==
    IF rescale_range = {} THEN [ok |-> TRUE, error |-> None, label |-> Frac(x, 1)]
    ELSE LET range == CHOOSE rg \in rescale_range : TRUE
             label == Frac(x - range[1], range[2] - range[1])
         IN  [ok |-> TRUE, error |-> None,
              label |-> IF ~FracLeq(Frac(0, 1), label) THEN Frac(0, 1)
                        ELSE IF ~FracLeq(label, Frac(1, 1)) THEN Frac(1, 1) ELSE label]

\* NumericLabelTensorizer.numberize, lines 320-327.
NumericNumberize(rescale_range, x) ==
    IF rescale_range = {} THEN [ok |-> TRUE, error |-> None, label |-> Frac(x, 1)]
    ELSE LET range == CHOOSE rg \in rescale_range : TRUE
             shifted == Frac(x - range[1], 1)
             label == Frac(shifted.num, shifted.den * (range[2] - range[1]))
         IN  IF FracLeq(Frac(0, 1), label) /\ FracLeq(label, Frac(1, 1))
             THEN [ok |-> TRUE, error |-> None, label |-> label]
             ELSE [ok |-> FALSE, error |-> "AssertionError", label |-> Frac(0, 1)]

\* A call of NumericLabelTensorizer.numberize on a row holding the number x.
CallNumericNumberize ==
    /\ op = "none"
    /\ \E rescale_range \in RescaleRanges, x \in (-MaxAbs - 1)..(MaxAbs + 1) :
            /\ op' = "NumericLabelTensorizer.numberize"
            /\ args' = [rescale_range |-> rescale_range, x |-> x]
            /\ res' = NumericNumberize(rescale_range, x)
            /\ UNCHANGED initVars

InitNumeric == InitIdleInitializer /\ InitIdleCall
NextNumeric == CallNumericNumberize
SpecNumeric == InitNumeric /\ [][NextNumeric]_vars

\* ------------------------------------------------ claims: the numeric labels

\* C9: with rescale_range [lo, hi], numberize of x returns (x - lo) / (hi - lo)
\* exactly when lo <= x <= hi (0 for x = lo, 1 for x = hi) and fails, returning
\* nothing, for every x < lo and every x > hi; with no rescale_range it
\* returns x.
C9_RescaleOrFail ==
    op = "NumericLabelTensorizer.numberize" =>
        IF args.rescale_range = {}
        THEN res.ok /\ FracEq(res.label, Frac(args.x, 1))
        ELSE LET range == CHOOSE rg \in args.rescale_range : TRUE
                 lo == range[1]
                 hi == range[2]
             IN  /\ res.ok <=> (lo <= args.x /\ args.x <= hi)
                 /\ res.ok => FracEq(res.label, Frac(args.x - lo, hi - lo))
                 /\ (res.ok /\ args.x = lo) => FracEq(res.label, Frac(0, 1))
                 /\ (res.ok /\ args.x = hi) => FracEq(res.label, Frac(1, 1))
                 /\ ~res.ok => res.error = "AssertionError"

\* C9 witness: a raw label above the configured range was numberized and the
\* call failed.
C9_Witness ==
    /\ op = "NumericLabelTensorizer.numberize"
    /\ args.rescale_range # {}
    /\ args.x > (CHOOSE rg \in args.rescale_range : TRUE)[2]
    /\ ~res.ok

\* ====================================================== FloatListTensorizer

\* A text is the sequence of its characters.
Digits == {"0", "1", "2", "3", "5"}
FloatChars == Digits \cup {"[", "]", " ", ",", "."}
DigitValue == [c \in Digits |-> CASE c = "0" -> 0 [] c = "1" -> 1 [] c = "2" -> 2
                                   [] c = "3" -> 3 [] c = "5" -> 5]

\* The length of the longest run of characters of `set` in str from index k on.
RECURSIVE RunLen(_, _, _)
RunLen(str, k, set) ==
    IF k <= Len(str) /\ str[k] \in set THEN 1 + RunLen(str, k + 1, set) ELSE 0

\* re.sub(r"\[ +", "[", str), line 355, from index k on: a "[" and the spaces
\* after it become "[".
RECURSIVE StripBegin(_, _)
StripBegin(str, k) ==
    IF k > Len(str) THEN <<>>
    ELSE IF str[k] = "[" /\ RunLen(str, k + 1, {" "}) >= 1
         THEN <<"[">> \o StripBegin(str, k + 1 + RunLen(str, k + 1, {" "}))
         ELSE <<str[k]>> \o StripBegin(str, k + 1)

\* re.sub(r" +\]", "]", str), line 357, from index k on: a run of spaces that
\* ends at a "]" becomes "]" with it.
RECURSIVE StripEnd(_, _)
StripEnd(str, k) ==
    IF k > Len(str) THEN <<>>
    ELSE LET run == RunLen(str, k, {" "})
         IN  IF run >= 1 /\ k + run <= Len(str) /\ str[k + run] = "]"
             THEN <<"]">> \o StripEnd(str, k + run + 1)
             ELSE <<str[k]>> \o StripEnd(str, k + 1)

\* re.sub(r"([0-9]+)[.]([^0-9]+)", "\\1.0\\2", str), line 359, from index k on:
\* a digit run, a "." and the run of non-digits after it get a "0" after the ".".
RECURSIVE PointFix(_, _)
PointFix(str, k) ==
    IF k > Len(str) THEN <<>>
    ELSE LET d == RunLen(str, k, Digits)
             n == RunLen(str, k + d + 1, FloatChars \ Digits)
         IN  IF d >= 1 /\ k + d <= Len(str) /\ str[k + d] = "." /\ n >= 1
             THEN SubSeq(str, k, k + d - 1) \o <<".", "0">>
                      \o SubSeq(str, k + d + 1, k + d + n) \o PointFix(str, k + d + n + 1)
             ELSE <<str[k]>> \o PointFix(str, k + 1)

\* re.sub(r",? +", ",", str), line 360, from index k on: a run of spaces, with
\* the comma before it if there is one, becomes ",".
RECURSIVE CommaFix(_, _)
CommaFix(str, k) ==
    IF k > Len(str) THEN <<>>
    ELSE IF str[k] = "," /\ RunLen(str, k + 1, {" "}) >= 1
         THEN <<",">> \o CommaFix(str, k + 1 + RunLen(str, k + 1, {" "}))
         ELSE IF str[k] = " "
              THEN <<",">> \o CommaFix(str, k + RunLen(str, k, {" "}))
              ELSE <<str[k]>> \o CommaFix(str, k + 1)

\* The value of a run of digits, base 10.
RECURSIVE DigitsValue(_)
DigitsValue(ds) ==
    IF ds = <<>> THEN 0 ELSE 10 * DigitsValue(SubSeq(ds, 1, Len(ds) - 1)) + DigitValue[ds[Len(ds)]]

RECURSIVE Pow10(_)
Pow10(n) == IF n = 0 THEN 1 ELSE 10 * Pow10(n - 1)

\* Whether str is a JSON number without sign or exponent: digits with no
\* leading zero, then optionally "." and at least one digit.
IsJsonNumber(str) ==
    LET d == RunLen(str, 1, Digits)
        f == RunLen(str, d + 2, Digits)
    IN  /\ d >= 1
        /\ (d > 1 => str[1] # "0")
        /\ \/ Len(str) = d
           \/ /\ Len(str) > d + 1
              /\ str[d + 1] = "."
              /\ f >= 1
              /\ Len(str) = d + 1 + f

\* The number a JSON number denotes.
JsonNumberValue(str) ==
    LET d == RunLen(str, 1, Digits)
        f == Len(str) - d - 1
    IN  IF Len(str) = d THEN Frac(DigitsValue(str), 1)
        ELSE Frac(DigitsValue(SubSeq(str, 1, d)) * Pow10(f)
                      + DigitsValue(SubSeq(str, d + 2, Len(str))), Pow10(f))

\* json.loads on a text that is one bracket pair around numbers: the list of
\* the numbers between the commas, or a decode error.
JsonLoads(str) ==
    IF Len(str) < 2 \/ str[1] # "[" \/ str[Len(str)] # "]"
    THEN [ok |-> FALSE, items |-> <<>>]
    ELSE LET inner == SubSeq(str, 2, Len(str) - 1)
             pieces == Split(inner, ",")
         IN  IF inner = <<>> THEN [ok |-> TRUE, items |-> <<>>]
             ELSE IF \A k \in 1..Len(pieces) : IsJsonNumber(pieces[k])
                  THEN [ok |-> TRUE,
                        items |-> [k \in 1..Len(pieces) |-> JsonNumberValue(pieces[k])]]
                  ELSE [ok |-> FALSE, items |-> <<>>]

\* FloatListTensorizer.numberize, lines 353-376.
FloatListNumberize(error_check, dim, text) ==
    LET strip_begin == StripBegin(text, 1)
        strip_end == StripEnd(strip_begin, 1)
        point_fixed == PointFix(strip_end, 1)
        json_input == CommaFix(point_fixed, 1)
        parsed == JsonLoads(json_input)
    IN  IF ~parsed.ok
        THEN [ok |-> FALSE, error |-> "Exception", json_input |-> json_input, values |-> <<>>]
        ELSE IF error_check /\ dim # {Len(parsed.items)}
             THEN [ok |-> FALSE, error |-> "AssertionError", json_input |-> json_input,
                   values |-> <<>>]
             ELSE [ok |-> TRUE, error |-> None, json_input |-> json_input,
                   values |-> parsed.items]

\* The texts of list items, and the separators between two items: spaces, an
\* optional comma, spaces (not nothing at all).
ItemTexts == {<<"1">>, <<"2", ".">>, <<"3">>}
SpacesOf(n) == [k \in 1..n |-> " "]
Separators ==
    {SpacesOf(before) \o comma \o SpacesOf(after) :
        before \in 0..MaxSpaces, comma \in {<<>>, <<",">>}, after \in 0..1} \ {<<>>}

\* The items joined by the separators.
RECURSIVE JoinItems(_, _)
JoinItems(items, seps) ==
    IF Len(items) <= 1 THEN (IF items = <<>> THEN <<>> ELSE items[1])
    ELSE items[1] \o seps[1] \o JoinItems(Tail(items), Tail(seps))

\* The float list texts of at most n items: a bracket pair, spaces inside each
\* bracket, the items.
FloatListTexts(n) ==
    UNION {{<<"[">> \o SpacesOf(a) \o JoinItems(items, seps) \o SpacesOf(b) \o <<"]">> :
              a \in 0..1, b \in 0..1,
              seps \in [1..(IF items = <<>> THEN 0 ELSE Len(items) - 1) -> Separators]} :
           items \in SeqsUpTo(ItemTexts, n)}

\* The configurations __init__ accepts (line 351): error_check needs a dim.
FloatListConfigs ==
    {cf \in [error_check : BOOLEAN, dim : OptionalInts(MaxItems)] :
        ~cf.error_check \/ cf.dim # {}}

\* A call of FloatListTensorizer.numberize on a row.
CallFloatListNumberize ==
    /\ op = "none"
    /\ \E cf \in FloatListConfigs, text \in FloatListTexts(MaxItems) :
            /\ op' = "FloatListTensorizer.numberize"
            /\ args' = [error_check |-> cf.error_check, dim |-> cf.dim, text |-> text]
            /\ res' = FloatListNumberize(cf.error_check, cf.dim, text)
            /\ UNCHANGED initVars

InitFloatList == InitIdleInitializer /\ InitIdleCall
NextFloatList == CallFloatListNumberize
SpecFloatList == InitFloatList /\ [][NextFloatList]_vars

\* --------------------------------------------------- claims: the float lists

\* C8: numberize of the text "[ 1, 2.  ,3]", with no dimension check, does not
\* raise and returns [1.0, 2.0, 3.0].
C8_NormalizesExample ==
    (/\ op = "FloatListTensorizer.numberize"
     /\ ~args.error_check
     /\ args.text = <<"[", " ", "1", ",", " ", "2", ".", " ", " ", ",", "3", "]">>) =>
        /\ res.ok
        /\ Len(res.values) = 3
        /\ \A k \in 1..3 : FracEq(res.values[k], Frac(k, 1))

====
